---- MODULE Spec2Model ----
(***************************************************************************)
(* The Breakout component src/src/components/Game.tsx as a state machine.  *)
(*                                                                         *)
(* The React state `gameState` is the one program variable.  It is changed *)
(* by three handlers, each through setGameState: the animation-frame       *)
(* callback `update` (one tick), the `mousemove` listener                  *)
(* `handleMouseMove`, and the "Play Again" button's `handleRestart`.       *)
(* JavaScript runs the handlers one at a time and `update` and             *)
(* `handleMouseMove` pass functional updaters (prev => ...), so every      *)
(* handler is one atomic step on the latest state.                         *)
(*                                                                         *)
(* Numbers.  Lengths are integers in units of 1/Scale pixel, Scale =       *)
(* 20^EnglishDepth.  The brick width 88.75 and the paddle's 0.05 factor    *)
(* are exact in these units as long as at most EnglishDepth paddle bounces *)
(* feed one another; a tick whose paddle bounce would need a finer unit is *)
(* not taken (guard EnglishExact), and play is followed for at most        *)
(* EnglishDepth paddle bounces per match (guard WithinDepth).  The pointer *)
(* coordinate and paddle.x are JavaScript numbers that may be non-finite,  *)
(* and are records.                                                        *)
(***************************************************************************)
EXTENDS Integers, Sequences, FiniteSets, TLC

CANVAS_WIDTH == 800
CANVAS_HEIGHT == 600
PADDLE_HEIGHT == 10
PADDLE_WIDTH == 100
BALL_RADIUS == 8
BRICK_ROWS == 5
BRICK_COLS == 8
BRICK_HEIGHT == 20
BRICK_PADDING == 10
COLORS == <<"#FF6B6B", "#4ECDC4", "#45B7D1", "#96CEB4", "#FFEEAD">>

\* The brick grid's top offset, the literal 30 of `y: row * (...) + BRICK_PADDING + 30`.
BRICK_TOP_OFFSET == 30
\* The ball's start: `y: CANVAS_HEIGHT - 30`, `dx: 4`, `dy: -4`.
BALL_START_RAISE == 30
BALL_START_DX == 4
BALL_START_DY == -4
\* `* 0.05` of the paddle bounce, as the divisor 1 / 0.05.
ENGLISH_DIVISOR == 20
\* `newScore += 10`.
BRICK_SCORE == 10

(***************************************************************************)
(* Bounds of the model.                                                    *)
(***************************************************************************)
\* How many paddle bounces may feed one another before a tick would need a
\* unit finer than 1/Scale pixel.
EnglishDepth == 2

Scale == ENGLISH_DIVISOR ^ EnglishDepth
Px(n) == n * Scale

VARIABLES
    gameState,      \* the React state (interface GameState)
    lastPointer,    \* history: the pointer coordinate of the latest mousemove
                    \* since the state was built, NoPointer when there was none
    lastEvent,      \* history: the handler that ran last, "mount" before any
    bounces         \* history: paddle bounces since the state was built

vars == <<gameState, lastPointer, lastEvent, bounces>>

(***************************************************************************)
(* JavaScript numbers that may be non-finite.                              *)
(***************************************************************************)
Finite(v) == [kind |-> "finite", val |-> v]
NaN == [kind |-> "NaN", val |-> 0]
PosInfinity == [kind |-> "Infinity", val |-> 0]
NegInfinity == [kind |-> "-Infinity", val |-> 0]
NoPointer == [kind |-> "none", val |-> 0]

\* Math.min(a, b) and Math.max(a, b): NaN if either is NaN.
MathMin(a, b) ==
    IF a.kind = "NaN" \/ b.kind = "NaN" THEN NaN
    ELSE IF a.kind = "-Infinity" \/ b.kind = "-Infinity" THEN NegInfinity
    ELSE IF a.kind = "Infinity" THEN b
    ELSE IF b.kind = "Infinity" THEN a
    ELSE IF a.val <= b.val THEN a ELSE b

MathMax(a, b) ==
    IF a.kind = "NaN" \/ b.kind = "NaN" THEN NaN
    ELSE IF a.kind = "Infinity" \/ b.kind = "Infinity" THEN PosInfinity
    ELSE IF a.kind = "-Infinity" THEN b
    ELSE IF b.kind = "-Infinity" THEN a
    ELSE IF a.val >= b.val THEN a ELSE b

\* Math.abs on a finite number.
MathAbs(v) == IF v < 0 THEN -v ELSE v

(***************************************************************************)
(* initializeGame                                                          *)
(***************************************************************************)
brickWidth ==
    (Px(CANVAS_WIDTH) - (BRICK_COLS + 1) * Px(BRICK_PADDING)) \div BRICK_COLS

BrickCount == BRICK_ROWS * BRICK_COLS

\* Bug: the row pitch forgets BRICK_HEIGHT, so successive rows overlap.
NewBrickRowsOverlap(row, col) ==
    [x |-> col * (brickWidth + Px(BRICK_PADDING)) + Px(BRICK_PADDING),
     y |-> row * Px(BRICK_PADDING) + Px(BRICK_PADDING) + Px(BRICK_TOP_OFFSET),
     width |-> brickWidth,
     height |-> Px(BRICK_HEIGHT),
     color |-> COLORS[row + 1],
     visible |-> TRUE]

\* The brick pushed for (row, col), both counted from 0.
NewBrick(row, col) ==
    [x |-> col * (brickWidth + Px(BRICK_PADDING)) + Px(BRICK_PADDING),
     y |-> row * (Px(BRICK_HEIGHT) + Px(BRICK_PADDING)) + Px(BRICK_PADDING)
             + Px(BRICK_TOP_OFFSET),
     width |-> brickWidth,
     height |-> Px(BRICK_HEIGHT),
     color |-> COLORS[row + 1],
     visible |-> TRUE]

\* The array the two nested loops build, row-major; index i is 1-based here.
InitialBricks ==
    [i \in 1..BrickCount |->
        NewBrick((i - 1) \div BRICK_COLS, (i - 1) % BRICK_COLS)]

initializeGame ==
    [paddle |-> [x |-> Finite(Px(CANVAS_WIDTH) \div 2 - Px(PADDLE_WIDTH) \div 2),
                 width |-> Px(PADDLE_WIDTH),
                 height |-> Px(PADDLE_HEIGHT)],
     ball |-> [x |-> Px(CANVAS_WIDTH) \div 2,
               y |-> Px(CANVAS_HEIGHT) - Px(BALL_START_RAISE),
               dx |-> Px(BALL_START_DX),
               dy |-> Px(BALL_START_DY),
               radius |-> Px(BALL_RADIUS)],
     bricks |-> InitialBricks,
     score |-> 0,
     gameOver |-> FALSE,
     gameWon |-> FALSE]

(***************************************************************************)
(* handleMouseMove                                                         *)
(***************************************************************************)
\* Bug: only the lower clamp, Math.max(0, relativeX).
ClampPaddleNoMin(relativeX) == MathMax(Finite(0), relativeX)

\* const x = Math.max(0, Math.min(CANVAS_WIDTH - PADDLE_WIDTH, relativeX))
ClampPaddle(relativeX) ==
    MathMax(Finite(0),
            MathMin(Finite(Px(CANVAS_WIDTH) - Px(PADDLE_WIDTH)), relativeX))

\* Bug: the listener spreads the state it captured at mount instead of prev,
\* setGameState({...gameState, paddle: {...gameState.paddle, x}}).
MovePaddleStale(prev, relativeX) ==
    [initializeGame EXCEPT !.paddle.x = ClampPaddle(relativeX)]

\* Bug: a pointer move that also carries the ball along on the paddle.
MovePaddleDragsBall(prev, relativeX) ==
    [prev EXCEPT !.paddle.x = ClampPaddle(relativeX),
                 !.ball.x = ClampPaddle(relativeX).val + Px(PADDLE_WIDTH) \div 2]

\* The updater prev => ({...prev, paddle: {...prev.paddle, x}}).
MovePaddle(prev, relativeX) ==
    [prev EXCEPT !.paddle.x = ClampPaddle(relativeX)]

(***************************************************************************)
(* update: the updater of one tick, step by step.                          *)
(***************************************************************************)
\* if (prev.gameOver || prev.gameWon) return prev
Frozen(prev) == prev.gameOver \/ prev.gameWon

\* newBall = {...prev.ball, x: x + dx, y: y + dy}
Integrate(ball) ==
    [ball EXCEPT !.x = ball.x + ball.dx, !.y = ball.y + ball.dy]

\* Bug: a side bounce that also puts the ball back against the wall.
WallCollisionsClamped(ball) ==
    LET right == ball.x + Px(BALL_RADIUS) > Px(CANVAS_WIDTH)
        left == ball.x - Px(BALL_RADIUS) < 0
        b1 == IF right
              THEN [ball EXCEPT !.dx = -ball.dx,
                                !.x = Px(CANVAS_WIDTH) - Px(BALL_RADIUS)]
              ELSE IF left
              THEN [ball EXCEPT !.dx = -ball.dx, !.x = Px(BALL_RADIUS)]
              ELSE ball
    IN  IF b1.y - Px(BALL_RADIUS) < 0 THEN [b1 EXCEPT !.dy = -b1.dy] ELSE b1

\* Wall collisions: the side walls negate dx, then the top wall negates dy.
WallCollisions(ball) ==
    LET side == \/ ball.x + Px(BALL_RADIUS) > Px(CANVAS_WIDTH)
                \/ ball.x - Px(BALL_RADIUS) < 0
        b1 == IF side THEN [ball EXCEPT !.dx = -ball.dx] ELSE ball
    IN  IF b1.y - Px(BALL_RADIUS) < 0 THEN [b1 EXCEPT !.dy = -b1.dy] ELSE b1

\* The paddle test.  A comparison with NaN is false.
PaddleHit(ball, paddle) ==
    /\ ball.y + Px(BALL_RADIUS) > Px(CANVAS_HEIGHT) - Px(PADDLE_HEIGHT)
    /\ paddle.x.kind = "finite"
    /\ ball.x > paddle.x.val
    /\ ball.x < paddle.x.val + Px(PADDLE_WIDTH)

\* newBall.x - (prev.paddle.x + PADDLE_WIDTH / 2), the offset that is scaled by 0.05.
PaddleOffset(ball, paddle) ==
    ball.x - (paddle.x.val + Px(PADDLE_WIDTH) \div 2)

\* Bug: a paddle that speeds the ball up, `newBall.dy = -Math.abs(newBall.dy) - 1`.
PaddleCollisionSpeedUp(ball, paddle) ==
    IF PaddleHit(ball, paddle)
    THEN [ball EXCEPT !.dy = -MathAbs(ball.dy) - Px(1),
                      !.dx = ball.dx + PaddleOffset(ball, paddle) \div ENGLISH_DIVISOR]
    ELSE ball

\* Bug: the paddle negates dy like a wall, `newBall.dy *= -1`.
PaddleCollisionFlip(ball, paddle) ==
    IF PaddleHit(ball, paddle)
    THEN [ball EXCEPT !.dy = -ball.dy,
                      !.dx = ball.dx + PaddleOffset(ball, paddle) \div ENGLISH_DIVISOR]
    ELSE ball

PaddleCollision(ball, paddle) ==
    IF PaddleHit(ball, paddle)
    THEN [ball EXCEPT !.dy = -MathAbs(ball.dy),
                      !.dx = ball.dx + PaddleOffset(ball, paddle) \div ENGLISH_DIVISOR]
    ELSE ball

\* Bug: the ball is lost only once all of it is below the floor.
BallLostWholeBall(ball) == ball.y - Px(BALL_RADIUS) > Px(CANVAS_HEIGHT)

\* if (newBall.y + BALL_RADIUS > CANVAS_HEIGHT)
BallLost(ball) == ball.y + Px(BALL_RADIUS) > Px(CANVAS_HEIGHT)

\* Bug: the loss return that stores the ball of the losing tick.
LossResultKeepsBall(prev) ==
    [prev EXCEPT !.gameOver = TRUE,
                 !.ball = PaddleCollision(WallCollisions(Integrate(prev.ball)),
                                          prev.paddle)]

\* return {...prev, gameOver: true}
LossResult(prev) == [prev EXCEPT !.gameOver = TRUE]

\* The point-in-rectangle test of the brick loop.
BrickHit(ball, brick) ==
    /\ ball.x > brick.x
    /\ ball.x < brick.x + brick.width
    /\ ball.y > brick.y
    /\ ball.y < brick.y + brick.height

\* Bug: the loop without `if (!brick.visible) continue`.
BrickStepNoSkip(acc, i) ==
    LET brick == acc.newBricks[i] IN
    IF BrickHit(acc.newBall, brick)
    THEN [newBricks |-> [acc.newBricks EXCEPT ![i].visible = FALSE],
          newBall |-> [acc.newBall EXCEPT !.dy = -acc.newBall.dy],
          newScore |-> acc.newScore + BRICK_SCORE,
          bricksRemaining |-> TRUE]
    ELSE IF brick.visible THEN [acc EXCEPT !.bricksRemaining = TRUE]
    ELSE acc

\* Bug: `bricksRemaining = true` moved into the hit branch.
BrickStepRemainingOnHit(acc, i) ==
    LET brick == acc.newBricks[i] IN
    IF ~brick.visible THEN acc
    ELSE IF BrickHit(acc.newBall, brick)
    THEN [newBricks |-> [acc.newBricks EXCEPT ![i].visible = FALSE],
          newBall |-> [acc.newBall EXCEPT !.dy = -acc.newBall.dy],
          newScore |-> acc.newScore + BRICK_SCORE,
          bricksRemaining |-> TRUE]
    ELSE acc

\* Bug: a hit hides the brick and scores but forgets `newBall.dy *= -1`.
BrickStepNoBounce(acc, i) ==
    LET brick == acc.newBricks[i] IN
    IF ~brick.visible THEN acc
    ELSE IF BrickHit(acc.newBall, brick)
    THEN [newBricks |-> [acc.newBricks EXCEPT ![i].visible = FALSE],
          newBall |-> acc.newBall,
          newScore |-> acc.newScore + BRICK_SCORE,
          bricksRemaining |-> TRUE]
    ELSE [acc EXCEPT !.bricksRemaining = TRUE]

\* One iteration of the brick loop on the loop's variables
\* acc = [newBricks, newBall, newScore, bricksRemaining].
BrickStep(acc, i) ==
    LET brick == acc.newBricks[i] IN
    IF ~brick.visible THEN acc
    ELSE IF BrickHit(acc.newBall, brick)
    THEN [newBricks |-> [acc.newBricks EXCEPT ![i].visible = FALSE],
          newBall |-> [acc.newBall EXCEPT !.dy = -acc.newBall.dy],
          newScore |-> acc.newScore + BRICK_SCORE,
          bricksRemaining |-> TRUE]
    ELSE [acc EXCEPT !.bricksRemaining = TRUE]

\* for (let i = 0; i < newBricks.length; i++): iterations i..length, no early exit.
RECURSIVE BrickLoop(_, _)
BrickLoop(acc, i) ==
    IF i > Len(acc.newBricks) THEN acc
    ELSE BrickLoop(BrickStep(acc, i), i + 1)

\* Bug: a won match is also flagged over.
WinResultAlsoOver(prev) == [prev EXCEPT !.gameWon = TRUE, !.gameOver = TRUE]

\* return {...prev, gameWon: true}
WinResult(prev) == [prev EXCEPT !.gameWon = TRUE]

\* The ball after integration, walls and paddle: what the loss test reads.
MovedBall(prev) ==
    PaddleCollision(WallCollisions(Integrate(prev.ball)), prev.paddle)

\* Bug: update without its three early returns: the flags are set on a state
\* that keeps simulating.
UpdateStateNoReturn(prev) ==
    LET newBall == MovedBall(prev)
        scan == BrickLoop([newBricks |-> prev.bricks,
                           newBall |-> newBall,
                           newScore |-> prev.score,
                           bricksRemaining |-> FALSE], 1)
    IN  [prev EXCEPT !.ball = scan.newBall,
                     !.bricks = scan.newBricks,
                     !.score = scan.newScore,
                     !.gameOver = prev.gameOver \/ BallLost(newBall),
                     !.gameWon = prev.gameWon \/ ~scan.bricksRemaining]

\* Bug: update without the `if (!bricksRemaining)` return: a cleared match
\* plays on.
UpdateStateNoWin(prev) ==
    IF Frozen(prev) THEN prev
    ELSE LET newBall == MovedBall(prev) IN
         IF BallLost(newBall) THEN LossResult(prev)
         ELSE LET scan == BrickLoop([newBricks |-> prev.bricks,
                                     newBall |-> newBall,
                                     newScore |-> prev.score,
                                     bricksRemaining |-> FALSE], 1)
              IN  [prev EXCEPT !.ball = scan.newBall,
                               !.bricks = scan.newBricks,
                               !.score = scan.newScore]

UpdateState(prev) ==
    IF Frozen(prev) THEN prev
    ELSE LET newBall == MovedBall(prev) IN
         IF BallLost(newBall) THEN LossResult(prev)
         ELSE LET scan == BrickLoop([newBricks |-> prev.bricks,
                                     newBall |-> newBall,
                                     newScore |-> prev.score,
                                     bricksRemaining |-> FALSE], 1)
              IN  IF ~scan.bricksRemaining THEN WinResult(prev)
                  ELSE [prev EXCEPT !.ball = scan.newBall,
                                    !.bricks = scan.newBricks,
                                    !.score = scan.newScore]

\* The tick's paddle bounce, if any, is exact in units of 1/Scale pixel.
EnglishExact(prev) ==
    LET b == WallCollisions(Integrate(prev.ball)) IN
    (~Frozen(prev) /\ PaddleHit(b, prev.paddle))
        => PaddleOffset(b, prev.paddle) % ENGLISH_DIVISOR = 0

(***************************************************************************)
(* States of a match in progress.                                          *)
(***************************************************************************)
VisibleCount(bricks) == Cardinality({i \in DOMAIN bricks : bricks[i].visible})

\* Pointer coordinates (e.clientX - rect.left), in pixels.
PointerPixels == {-40, 330, 346, 400, 696, 840}
PointerInputs == {Finite(Px(p)) : p \in PointerPixels}
NonFiniteInputs == {NaN, PosInfinity, NegInfinity}

\* A late match: only the bricks of `keep` are left, every other brick has
\* been destroyed and scored, the ball is in flight at (x, y) with velocity
\* (dx, dy) pixels per tick.  y is one of the heights the ball visits
\* (CANVAS_HEIGHT - 30 plus a multiple of 4), |dy| is 4.
LateMatch(keep, x, y, dx, dy) ==
    [initializeGame EXCEPT
        !.bricks = [i \in 1..BrickCount |->
                       [InitialBricks[i] EXCEPT !.visible = (i \in keep)]],
        !.score = BRICK_SCORE * (BrickCount - Cardinality(keep)),
        !.ball.x = Px(x), !.ball.y = Px(y),
        !.ball.dx = Px(dx), !.ball.dy = Px(dy)]

LateMatches ==
    { LateMatch({40}, 720, 198, 4, -4),
      LateMatch({1}, 60, 82, -4, -4),
      LateMatch({1}, 100, 14, -4, -4) }

(***************************************************************************)
(* The state machine.                                                      *)
(***************************************************************************)
Init ==
    /\ lastEvent = "mount"
    /\ bounces = 0
    /\ \/ /\ gameState = initializeGame
          /\ lastPointer = NoPointer
       \/ \E m \in LateMatches, p \in PointerInputs :
             /\ gameState = MovePaddle(m, p)
             /\ lastPointer = p

\* The paddle test of the tick from prev succeeds.
PaddleTick(prev) ==
    ~Frozen(prev) /\ PaddleHit(WallCollisions(Integrate(prev.ball)), prev.paddle)

\* The tick from the current state stays within EnglishDepth paddle bounces.
WithinDepth == PaddleTick(gameState) => bounces < EnglishDepth

\* requestAnimationFrame(update): one tick.
update ==
    /\ EnglishExact(gameState)
    /\ WithinDepth
    /\ gameState' = UpdateState(gameState)
    /\ lastEvent' = "update"
    /\ bounces' = IF PaddleTick(gameState) THEN bounces + 1 ELSE bounces
    /\ UNCHANGED lastPointer

\* The mousemove listener, with the pointer at relativeX.
MouseMoveTo(relativeX) ==
    /\ gameState' = MovePaddle(gameState, relativeX)
    /\ lastPointer' = relativeX
    /\ lastEvent' = "mousemove"
    /\ UNCHANGED bounces

handleMouseMove == \E relativeX \in PointerInputs : MouseMoveTo(relativeX)

\* The same listener when the host hands it a coordinate that is not finite.
handleMouseMoveNonFinite ==
    \E relativeX \in NonFiniteInputs : MouseMoveTo(relativeX)

\* Bug: a restart that carries the score over.
handleRestartKeepsScore ==
    /\ gameState.gameOver \/ gameState.gameWon
    /\ gameState' = [initializeGame EXCEPT !.score = gameState.score]
    /\ lastPointer' = NoPointer
    /\ lastEvent' = "restart"
    /\ bounces' = 0

\* The "Play Again" button is rendered only when the match has ended.
handleRestart ==
    /\ gameState.gameOver \/ gameState.gameWon
    /\ gameState' = initializeGame
    /\ lastPointer' = NoPointer
    /\ lastEvent' = "restart"
    /\ bounces' = 0

Next == update \/ handleMouseMove \/ handleRestart

Spec == Init /\ [][Next]_vars

\* The program when the pointer coordinate may also be NaN or +-Infinity.
NextNonFinite == Next \/ handleMouseMoveNonFinite

SpecNonFinite == Init /\ [][NextNonFinite]_vars

(***************************************************************************)
(* Properties.                                                             *)
(***************************************************************************)
Terminal == gameState.gameOver \/ gameState.gameWon
VisibleNow == VisibleCount(gameState.bricks)

\* The fields a tick may write: everything but the paddle.
Simulation(s) == <<s.ball, s.bricks, s.score, s.gameOver, s.gameWon>>

\* Where the paddle belongs after the pointer history p: centred when the
\* pointer never moved, else the pointer coordinate brought into [0, 700].
PointerTarget(p) ==
    IF p.kind = "none" THEN Finite(Px(350))
    ELSE IF p.val < 0 THEN Finite(0)
    ELSE IF p.val > Px(700) THEN Finite(Px(700))
    ELSE p

\* C1 (as specified; the code violates it): a tick that leaves no visible brick has set gameWon in the
\* state it produces; the tick that destroys the 40th brick ends with
\* gameWon = true, score = 400 and gameOver = false.
C1_WinOnLastBrickTick ==
    (lastEvent = "update" /\ VisibleNow = 0)
        => (gameState.gameWon /\ gameState.score = 400 /\ ~gameState.gameOver)

\* C2: gameOver and gameWon are never both true.
C2_TerminalExclusive == ~(gameState.gameOver /\ gameState.gameWon)

\* A won match, after a further pointer input.
C2_Witness ==
    gameState.gameWon /\ ~gameState.gameOver /\ lastEvent = "mousemove"

\* C3: a tick taken once gameOver or gameWon is set leaves the ball's position
\* and velocity, the score, every brick's visible flag and both flags as they were.
C3_FreezeOnTerminal ==
    [][(Terminal /\ lastEvent' = "update") =>
          /\ gameState'.ball = gameState.ball
          /\ gameState'.score = gameState.score
          /\ \A i \in DOMAIN gameState.bricks :
                gameState'.bricks[i].visible = gameState.bricks[i].visible
          /\ gameState'.gameOver = gameState.gameOver
          /\ gameState'.gameWon = gameState.gameWon]_vars

\* A lost match on which a tick has run.
C3_Witness ==
    gameState.gameOver /\ lastEvent = "update" /\ gameState.score > 0

\* C4: score is 10 times the number of bricks that are not visible.
C4_ScoreConsistent == gameState.score = 10 * (40 - VisibleNow)

\* Two bricks destroyed in a match played from the start.
C4_Witness ==
    gameState.score = 20 /\ VisibleNow = 38 /\ lastEvent = "update"

\* C5: except across a restart, no brick turns visible again, a step removes
\* at most one brick, and the ball's centre is strictly inside at most one
\* brick rectangle.
C5_MonotonicBricks ==
    [][lastEvent' # "restart" =>
          /\ \A i \in DOMAIN gameState.bricks :
                gameState'.bricks[i].visible => gameState.bricks[i].visible
          /\ VisibleCount(gameState'.bricks) >= VisibleNow - 1
          /\ Cardinality({i \in DOMAIN gameState'.bricks :
                  BrickHit(gameState'.ball, gameState'.bricks[i])}) <= 1]_vars

\* A tick has just destroyed a brick: the ball's centre is inside an invisible
\* brick's rectangle.
C5_Witness ==
    /\ lastEvent = "update"
    /\ \E i \in DOMAIN gameState.bricks :
          /\ ~gameState.bricks[i].visible
          /\ BrickHit(gameState.ball, gameState.bricks[i])
    /\ VisibleNow = 39

\* C6: the paddle position is a number in [0, 700].
C6_PaddleClamped ==
    /\ gameState.paddle.x.kind = "finite"
    /\ gameState.paddle.x.val >= 0
    /\ gameState.paddle.x.val <= Px(700)

\* A pointer right of the arena has put the paddle at 700.
C6_Witness ==
    /\ lastEvent = "mousemove"
    /\ lastPointer.val > Px(800)
    /\ gameState.paddle.x = Finite(Px(700))

\* C7 (as specified; the code violates it): a mousemove with a non-finite coordinate leaves the state,
\* the paddle position included, as it was.
C7_NonFiniteRejected ==
    [][(lastEvent' = "mousemove" /\ lastPointer'.kind # "finite")
          => gameState' = gameState]_vars

\* C8: a tick from a running match whose integrated ball has y + 8 > 600
\* sets gameOver, leaves gameWon false and leaves score and bricks alone.
C8_LossTick ==
    [][(lastEvent' = "update" /\ ~Terminal
          /\ Integrate(gameState.ball).y + Px(8) > Px(600))
       => /\ gameState'.gameOver
          /\ ~gameState'.gameWon
          /\ gameState'.score = gameState.score
          /\ gameState'.bricks = gameState.bricks]_vars

\* A running match whose next tick loses the ball although the paddle test
\* succeeds on it.
C8_Witness ==
    /\ ~Terminal
    /\ BallLost(Integrate(gameState.ball))
    /\ PaddleHit(WallCollisions(Integrate(gameState.ball)), gameState.paddle)
    /\ EnglishExact(gameState)
    /\ WithinDepth

\* C9: a restart leaves exactly the state initializeGame builds: 40 visible
\* bricks, score 0, both flags false, paddle at 350, ball at (400, 570) with
\* velocity (4, -4); the tick after a restart runs on that state.
C9_RestartIsFresh ==
    [][/\ lastEvent' = "restart" =>
             /\ gameState' = initializeGame
             /\ VisibleCount(gameState'.bricks) = 40
             /\ gameState'.score = 0
             /\ ~gameState'.gameOver /\ ~gameState'.gameWon
             /\ gameState'.paddle.x = Finite(Px(350))
             /\ gameState'.ball.x = Px(400) /\ gameState'.ball.y = Px(570)
             /\ gameState'.ball.dx = Px(4) /\ gameState'.ball.dy = Px(-4)
       /\ (lastEvent = "restart" /\ lastEvent' = "update") =>
             gameState'.ball.y = Px(566) /\ gameState'.score = 0]_vars

\* The state a restart has just built, before any pointer input.
C9_Witness ==
    lastEvent = "restart" /\ gameState.score = 0 /\ lastPointer = NoPointer

\* C10: a tick runs with the paddle where the latest pointer input put it and
\* does not move it; a pointer input moves the paddle to its clamped
\* coordinate and leaves the simulation as the last tick left it.
C10_LatestInputWins ==
    [][/\ lastEvent' = "update" =>
             /\ gameState.paddle.x = PointerTarget(lastPointer)
             /\ gameState'.paddle.x = gameState.paddle.x
       /\ lastEvent' = "mousemove" =>
             /\ gameState'.paddle.x = PointerTarget(lastPointer')
             /\ Simulation(gameState') = Simulation(gameState)]_vars

\* A tick has bounced the ball off a paddle that pointer inputs had moved:
\* dx carries the spin of a paddle that is not at its initial place.
C10_Witness ==
    /\ lastEvent = "update"
    /\ lastPointer.kind = "finite"
    /\ gameState.paddle.x # Finite(Px(350))
    /\ gameState.ball.dy < 0
    /\ gameState.ball.y + Px(BALL_RADIUS) > Px(CANVAS_HEIGHT) - Px(PADDLE_HEIGHT)
    /\ gameState.ball.x > gameState.paddle.x.val
    /\ gameState.ball.x < gameState.paddle.x.val + Px(PADDLE_WIDTH)

\* The point (x, y) is strictly inside the rectangle of brick.
StrictlyInside(x, y, brick) ==
    /\ brick.x < x /\ x < brick.x + brick.width
    /\ brick.y < y /\ y < brick.y + brick.height

\* The visible bricks whose rectangle holds the integrated ball centre.
BricksEntered ==
    {i \in DOMAIN gameState.bricks :
        /\ gameState.bricks[i].visible
        /\ StrictlyInside(gameState.ball.x + gameState.ball.dx,
                          gameState.ball.y + gameState.ball.dy,
                          gameState.bricks[i])}

\* C11: a tick of a running match that does not lose the ball and whose
\* integrated ball centre is strictly inside a visible brick b hides b, stores
\* dy negated relative to its value before the brick step, adds exactly 10 to
\* the score and leaves every other brick's visible flag alone.
C11_BrickHit ==
    [][(lastEvent' = "update" /\ ~Terminal
          /\ ~(gameState.ball.y + gameState.ball.dy + Px(8) > Px(600)))
       => \A b \in BricksEntered :
             /\ ~gameState'.bricks[b].visible
             /\ gameState'.ball.dy = -MovedBall(gameState).dy
             /\ gameState'.score = gameState.score + 10
             /\ \A j \in DOMAIN gameState.bricks \ {b} :
                   gameState'.bricks[j].visible = gameState.bricks[j].visible]_vars

\* A match with all 40 bricks whose next tick takes the ball into a brick.
C11_Witness ==
    ~Terminal /\ VisibleNow = 40 /\ BricksEntered # {} /\ gameState.score = 0

\* The integrated ball of the current state overlaps the left or right wall.
SideOverlapNext ==
    \/ gameState.ball.x + gameState.ball.dx - Px(8) < 0
    \/ gameState.ball.x + gameState.ball.dx + Px(8) > Px(800)

\* The wall-bounce scenario: the ball at (5, 300) moving left at dx = -4.
WallScenario ==
    [initializeGame EXCEPT !.ball.x = Px(5), !.ball.y = Px(300),
                           !.ball.dx = Px(-4)]

\* The ball after one tick and after two ticks of the scenario.
WallScenarioBall1 == UpdateState(WallScenario).ball
WallScenarioBall2 == UpdateState(UpdateState(WallScenario)).ball

\* C12: a tick whose integrated ball overlaps a side wall stores the
\* integrated position uncorrected and dx negated (plus the paddle's spin when
\* the paddle test succeeds on that tick); from (5, 300) with dx = -4 one tick
\* gives dx = +4 and the tick after it moves the ball to the right.
C12_WallBounce ==
    [][/\ WallScenarioBall1.dx = Px(4)
       /\ WallScenarioBall2.x > WallScenarioBall1.x
       /\ (lastEvent' = "update" /\ ~Terminal /\ SideOverlapNext
             /\ ~gameState'.gameOver /\ ~gameState'.gameWon)
          => /\ gameState'.ball.x = gameState.ball.x + gameState.ball.dx
             /\ IF PaddleTick(gameState)
                THEN 20 * (gameState'.ball.dx + gameState.ball.dx)
                        = gameState'.ball.x - (gameState.paddle.x.val + Px(50))
                ELSE gameState'.ball.dx = -gameState.ball.dx]_vars

\* A tick has just bounced the ball off the right wall: it still overlaps the
\* wall and moves left.
C12_Witness ==
    /\ lastEvent = "update" /\ ~Terminal
    /\ gameState.ball.x + Px(8) > Px(800)
    /\ gameState.ball.dx = Px(-4)

\* C14: in a won match every brick is invisible, the score is 400 and
\* gameOver is false.
C14_WonMeansCleared ==
    gameState.gameWon =>
        /\ \A i \in DOMAIN gameState.bricks : ~gameState.bricks[i].visible
        /\ gameState.score = 400
        /\ ~gameState.gameOver

\* The tick that found no visible brick has just set gameWon.
C14_Witness ==
    gameState.gameWon /\ lastEvent = "update" /\ Len(gameState.bricks) = 40

\* The ball b overlaps the left wall, the right wall.
OverlapsLeft(b) == b.x - Px(8) < 0
OverlapsRight(b) == b.x + Px(8) > Px(800)

\* C15 (as specified; the code violates it): when the stored ball overlaps a
\* side wall, the next tick that does not end the match leaves it clear of
\* that wall.
C15_OverlapOneTick ==
    [][(lastEvent' = "update" /\ ~Terminal
          /\ ~gameState'.gameOver /\ ~gameState'.gameWon)
       => /\ OverlapsLeft(gameState.ball) => ~OverlapsLeft(gameState'.ball)
          /\ OverlapsRight(gameState.ball) => ~OverlapsRight(gameState'.ball)]_vars

\* The paddle test succeeds on the integrated ball of the current state, with
\* the paddle where it is now.
PaddleTestNext ==
    /\ gameState.ball.y + gameState.ball.dy + Px(8) > Px(600) - Px(10)
    /\ gameState.paddle.x.kind = "finite"
    /\ gameState.paddle.x.val < gameState.ball.x + gameState.ball.dx
    /\ gameState.ball.x + gameState.ball.dx < gameState.paddle.x.val + Px(100)

\* C16: a tick of a running match on which the paddle test succeeds and the
\* ball is not lost stores dy < 0, and stores dx as it left the wall step plus
\* 0.05 * (integrated ball.x - centre of the paddle as it was before the tick).
C16_PaddleBounce ==
    [][(lastEvent' = "update" /\ ~Terminal /\ PaddleTestNext
          /\ ~gameState'.gameOver)
       => /\ gameState'.ball.dy < 0
          /\ 20 * (gameState'.ball.dx
                     - (IF SideOverlapNext THEN -gameState.ball.dx
                                           ELSE gameState.ball.dx))
                = gameState.ball.x + gameState.ball.dx
                    - (gameState.paddle.x.val + Px(50))]_vars

\* A running match whose ball is already moving up and whose next tick, not a
\* loss, passes the paddle test again.
C16_Witness ==
    /\ ~Terminal /\ PaddleTestNext
    /\ gameState.ball.dy < 0
    /\ EnglishExact(gameState) /\ WithinDepth

\* C17: a mousemove changes nothing but paddle.x, whether the match is
\* running or has ended; a tick leaves the whole paddle alone; so the paddle
\* changes on a mousemove or a restart only.
C17_PointerFrame ==
    [][/\ lastEvent' = "mousemove" =>
             /\ Simulation(gameState') = Simulation(gameState)
             /\ gameState'.paddle.width = gameState.paddle.width
             /\ gameState'.paddle.height = gameState.paddle.height
       /\ lastEvent' = "update" => gameState'.paddle = gameState.paddle
       /\ gameState'.paddle # gameState.paddle
             => lastEvent' \in {"mousemove", "restart"}]_vars

\* A pointer input has moved the paddle of a lost match on which bricks
\* had been destroyed.
C17_Witness ==
    /\ gameState.gameOver
    /\ lastEvent = "mousemove"
    /\ gameState.score > 0
    /\ gameState.paddle.x = Finite(0)

\* C18: gameOver is never set in a state without a visible brick, and the
\* tick that runs on a cleared, running match sets gameWon and not gameOver.
C18_ClearedNeverLost ==
    /\ [](VisibleNow = 0 => ~gameState.gameOver)
    /\ [][(VisibleNow = 0 /\ ~Terminal /\ lastEvent' = "update")
             => gameState'.gameWon /\ ~gameState'.gameOver]_vars

\* A pointer input arrives between the tick that destroys the last brick and
\* the tick that sets gameWon.
C18_Witness ==
    /\ VisibleNow = 0
    /\ ~Terminal
    /\ lastEvent = "mousemove"
    /\ gameState.score = 400

\* The integrated ball of the current state is in the top-wall band.
TopBandNext == gameState.ball.y + gameState.ball.dy - Px(8) < 0

\* The integrated ball of the current state is inside a visible brick.
BrickBandNext == BricksEntered # {}

\* C19: |dy| = 4 in every state, and on no tick of a running match do two of
\* the top wall, the paddle and a brick write dy.
C19_VerticalSpeed ==
    /\ [](gameState.ball.dy \in {Px(4), -Px(4)})
    /\ [][(lastEvent' = "update" /\ ~Terminal)
             => /\ ~(TopBandNext /\ PaddleTestNext)
                /\ ~(TopBandNext /\ BrickBandNext)
                /\ ~(PaddleTestNext /\ BrickBandNext)
                /\ Cardinality(BricksEntered) <= 1]_vars

\* The ball has just bounced off the top wall and is on its way down.
C19_Witness ==
    /\ lastEvent = "update"
    /\ ~Terminal
    /\ gameState.ball.y - Px(8) < 0
    /\ gameState.ball.dy = Px(4)

\* C20: the stored ball is never below the floor nor above the ceiling line,
\* and the tick that ends a match stores the ball it started from.
C20_BallInArena ==
    /\ [](/\ gameState.ball.y + Px(8) <= Px(600)
          /\ gameState.ball.y >= 0)
    /\ [][(lastEvent' = "update" /\ ~Terminal
             /\ (gameState'.gameOver \/ gameState'.gameWon))
             => gameState'.ball = gameState.ball]_vars

\* A lost match: the stored ball is the one from before the losing tick, 2 px
\* above the floor and still moving down.
C20_Witness ==
    /\ gameState.gameOver
    /\ lastEvent = "update"
    /\ gameState.ball.y = Px(590)
    /\ gameState.ball.dy = Px(4)

====
